---- MODULE Spec2Model ----
(***************************************************************************)
(* Dynamic Data Table Manager: the table slice (tableSlice.ts), the query  *)
(* pipeline of TableManager (filterRows / sortRows / paging), the bulk     *)
(* actions, the saved views, the export projector and the activity log.    *)
(*                                                                         *)
(* JavaScript strings are TLA+ strings (Len, SubSeq and \o act on them).   *)
(* A JavaScript value is a record [t, v]: t is the type tag and v the      *)
(* payload.  A row is a function from field names to JavaScript values; a  *)
(* field that is not in the domain reads as undefined.                     *)
(***************************************************************************)
EXTENDS Integers, Sequences, FiniteSets, TLC

VARIABLES
    columns,        \* TableState.columns
    rows,           \* TableState.rows
    search,         \* TableState.search
    sort,           \* TableState.sort (NoSort for null)
    page,           \* TableState.page
    pageSize,       \* TableState.pageSize
    editingRows,    \* TableState.editingRows
    selectedRows,   \* TableState.selectedRows
    filters,        \* TableState.filters
    activityLog,    \* TableState.activityLog
    savedViews,     \* TableState.savedViews
    formValues,     \* the values of the one useForm() instance of TableManager
    deleteDialog,   \* TableManager's deleteDialog.id (NoId for null)
    pendingImport,  \* the file Papa.parse is reading (NoFile when none)
    addColumnError, \* TableManager's addColumnError
    columnOrder,    \* TableManager's columnOrder, after the effect that syncs it
    clock,          \* Date.now(), read by saveView and logActivity
    nextId,         \* number of identities uuidv4() has handed out
    snapshots,      \* history: view id -> the live query state when it was saved
    filteredRows,   \* last value of TableManager's filteredRows memo
    exported,       \* last value of AdvancedExport's getExportData()
    sortedRows,     \* last value of TableManager's sortedRows memo
    pageWindows,    \* history: the pagedRows memo of every page shown since the
                    \* sorted rows or the page size last changed
    exportOutcome,  \* what the last run of AdvancedExport's handleExport did
    addFilterOutcome \* what the last click on AdvancedFilters' Add Filter did

vars == <<columns, rows, search, sort, page, pageSize, editingRows, selectedRows,
          filters, activityLog, savedViews, formValues, deleteDialog, pendingImport,
          addColumnError, columnOrder, clock, nextId, snapshots, filteredRows, exported,
          sortedRows, pageWindows, exportOutcome, addFilterOutcome>>

(***************************************************************************)
(* JavaScript strings                                                      *)
(***************************************************************************)
UpperChars == "ABCDEFGHIJKLMNOPQRSTUVWXYZ"

LowerChars == "abcdefghijklmnopqrstuvwxyz"

DigitChars == "0123456789"

Char(s, i) == SubSeq(s, i, i)

Drop(s, n) == SubSeq(s, n + 1, Len(s))

LowerChar(c) ==
    IF \E i \in 1..26 : Char(UpperChars, i) = c
    THEN Char(LowerChars, CHOOSE i \in 1..26 : Char(UpperChars, i) = c)
    ELSE c

RECURSIVE ToLowerCase(_)
ToLowerCase(s) ==
    IF s = "" THEN "" ELSE LowerChar(Char(s, 1)) \o ToLowerCase(Drop(s, 1))

IsWhite(c) == c \in {" ", "\t", "\n", "\r"}

RECURSIVE TrimStart(_)
TrimStart(s) ==
    IF s # "" /\ IsWhite(Char(s, 1)) THEN TrimStart(Drop(s, 1)) ELSE s

RECURSIVE TrimEnd(_)
TrimEnd(s) ==
    IF s # "" /\ IsWhite(Char(s, Len(s))) THEN TrimEnd(SubSeq(s, 1, Len(s) - 1)) ELSE s

Trim(s) == TrimEnd(TrimStart(s))

\* s.replace(/\s+/g, '_')
RECURSIVE ReplaceWhiteRuns(_)
ReplaceWhiteRuns(s) ==
    IF s = "" THEN ""
    ELSE IF IsWhite(Char(s, 1)) THEN "_" \o ReplaceWhiteRuns(TrimStart(s))
    ELSE Char(s, 1) \o ReplaceWhiteRuns(Drop(s, 1))

Includes(s, t) == \E i \in 0..(Len(s) - Len(t)) : SubSeq(s, i + 1, i + Len(t)) = t

StartsWith(s, t) == Len(t) <= Len(s) /\ SubSeq(s, 1, Len(t)) = t

EndsWith(s, t) == Len(t) <= Len(s) /\ SubSeq(s, Len(s) - Len(t) + 1, Len(s)) = t

IsDigit(c) == \E i \in 1..10 : Char(DigitChars, i) = c

DigitValue(c) == (CHOOSE i \in 1..10 : Char(DigitChars, i) = c) - 1

RECURSIVE DigitsToNat(_)
DigitsToNat(s) ==
    IF s = "" THEN 0
    ELSE 10 * DigitsToNat(SubSeq(s, 1, Len(s) - 1)) + DigitValue(Char(s, Len(s)))

RECURSIVE NatToDigits(_)
NatToDigits(n) ==
    IF n < 10 THEN Char(DigitChars, n + 1)
    ELSE NatToDigits(n \div 10) \o Char(DigitChars, (n % 10) + 1)

(***************************************************************************)
(* JavaScript values: string | number | boolean | null | undefined, and    *)
(* NaN as the one number that is not an integer of the model.              *)
(***************************************************************************)
JsStr(s) == [t |-> "string", v |-> s]

JsNum(n) == [t |-> "number", v |-> n]

JsBool(b) == [t |-> "boolean", v |-> b]

JsNull == [t |-> "null", v |-> 0]

JsUndef == [t |-> "undefined", v |-> 0]

JsNaN == [t |-> "NaN", v |-> 0]

\* String(value)
String(x) ==
    CASE x.t = "string" -> x.v
      [] x.t = "number" -> IF x.v < 0 THEN "-" \o NatToDigits(0 - x.v) ELSE NatToDigits(x.v)
      [] x.t = "boolean" -> IF x.v THEN "true" ELSE "false"
      [] x.t = "null" -> "null"
      [] x.t = "undefined" -> "undefined"
      [] x.t = "NaN" -> "NaN"

\* the digits of a numeric literal without its sign; strings of the model hold
\* no '.', exponent, radix prefix or 'Infinity'
AllDigits(s) == s # "" /\ \A i \in 1..Len(s) : IsDigit(Char(s, i))

\* Number(string): StringToNumber of the trimmed text
StringToNumber(s) ==
    LET body == Trim(s)
    IN  IF body = "" THEN JsNum(0)
        ELSE IF AllDigits(body) THEN JsNum(DigitsToNat(body))
        ELSE IF Char(body, 1) = "-" /\ AllDigits(Drop(body, 1))
             THEN JsNum(0 - DigitsToNat(Drop(body, 1)))
        ELSE IF Char(body, 1) = "+" /\ AllDigits(Drop(body, 1))
             THEN JsNum(DigitsToNat(Drop(body, 1)))
        ELSE JsNaN

\* Number(value)
Number(x) ==
    CASE x.t = "string" -> StringToNumber(x.v)
      [] x.t = "number" -> x
      [] x.t = "boolean" -> IF x.v THEN JsNum(1) ELSE JsNum(0)
      [] x.t = "null" -> JsNum(0)
      [] x.t = "undefined" -> JsNaN
      [] x.t = "NaN" -> JsNaN

\* ToBoolean(value), as used by !value and value && ...
Truthy(x) ==
    CASE x.t = "string" -> x.v # ""
      [] x.t = "number" -> x.v # 0
      [] x.t = "boolean" -> x.v
      [] x.t = "null" -> FALSE
      [] x.t = "undefined" -> FALSE
      [] x.t = "NaN" -> FALSE

IsNullish(x) == x.t \in {"null", "undefined"}

\* value ?? fallback
Coalesce(x, fallback) == IF IsNullish(x) THEN fallback ELSE x

\* a > b, a < b, a >= b, a <= b on numbers: false as soon as one side is NaN
NumGt(a, b) == a.t = "number" /\ b.t = "number" /\ a.v > b.v

NumLt(a, b) == a.t = "number" /\ b.t = "number" /\ a.v < b.v

\* a plausible slip: the lower end of a range is excluded
NumGeExclusive(a, b) == a.t = "number" /\ b.t = "number" /\ a.v > b.v

NumGe(a, b) == a.t = "number" /\ b.t = "number" /\ a.v >= b.v

NumLe(a, b) == a.t = "number" /\ b.t = "number" /\ a.v <= b.v

\* row[key]
Get(row, key) == IF key \in DOMAIN row THEN row[key] ELSE JsUndef

\* { ...a, ...b }
Spread(a, b) ==
    [k \in (DOMAIN a) \cup (DOMAIN b) |-> IF k \in DOMAIN b THEN b[k] ELSE a[k]]

EmptyObject == [k \in {} |-> JsUndef]

RowIds(rs) == [i \in 1..Len(rs) |-> Get(rs[i], "id")]

SeqToSet(s) == {s[i] : i \in 1..Len(s)}

ArrayIncludes(s, x) == \E i \in 1..Len(s) : s[i] = x

\* array.slice(from, to)
Slice(s, from, to) ==
    LET hi == IF to < Len(s) THEN to ELSE Len(s)
    IN  IF from >= hi THEN <<>> ELSE SubSeq(s, from + 1, hi)

(***************************************************************************)
(* Query pipeline of TableManager: filterRows, sortRows, paging            *)
(***************************************************************************)
NoSort == [column |-> "", direction |-> "none"]

\* a plausible slip: hidden columns are searched as well
SearchMatchesHidden(row, cols, text) ==
    LET lower == ToLowerCase(text)
    IN  \E i \in 1..Len(cols) :
            Includes(ToLowerCase(String(Coalesce(Get(row, cols[i].id), JsStr("")))), lower)

\* the search stage's row test
SearchMatches(row, cols, text) ==
    LET lower == ToLowerCase(text)
    IN  \E i \in 1..Len(cols) :
            /\ cols[i].visible
            /\ Includes(ToLowerCase(String(Coalesce(Get(row, cols[i].id), JsStr("")))), lower)

\* the body of filters.every(...) in filterRows
FilterMatches(row, filter) ==
    LET value == Get(row, filter.column)
        filterValue == filter.value
    IN  CASE filter.operator = "equals" ->
                ToLowerCase(String(value)) = ToLowerCase(String(filterValue))
          [] filter.operator = "contains" ->
                Includes(ToLowerCase(String(value)), ToLowerCase(String(filterValue)))
          [] filter.operator = "startsWith" ->
                StartsWith(ToLowerCase(String(value)), ToLowerCase(String(filterValue)))
          [] filter.operator = "endsWith" ->
                EndsWith(ToLowerCase(String(value)), ToLowerCase(String(filterValue)))
          [] filter.operator = "greaterThan" -> NumGt(Number(value), Number(filterValue))
          [] filter.operator = "lessThan" -> NumLt(Number(value), Number(filterValue))
          [] filter.operator = "between" ->
                /\ NumGe(Number(value), Number(filterValue))
                /\ NumLe(Number(value), Number(filter.value2))
          [] filter.operator = "isEmpty" -> (~Truthy(value)) \/ Trim(String(value)) = ""
          [] filter.operator = "isNotEmpty" -> Truthy(value) /\ Trim(String(value)) # ""
          [] OTHER -> TRUE

\* a plausible slip: the filter stage runs on the given rows and its result is
\* added to the search stage's instead of replacing it
filterRowsAppending(rs, cols, text, fs) ==
    LET searched == IF text # ""
                    THEN SelectSeq(rs, LAMBDA row : SearchMatches(row, cols, text))
                    ELSE rs
    IN  IF Len(fs) > 0
        THEN searched \o SelectSeq(rs,
                            LAMBDA row : \A i \in 1..Len(fs) : FilterMatches(row, fs[i]))
        ELSE searched

filterRows(rs, cols, text, fs) ==
    LET searched == IF text # ""
                    THEN SelectSeq(rs, LAMBDA row : SearchMatches(row, cols, text))
                    ELSE rs
    IN  IF Len(fs) > 0
        THEN SelectSeq(searched,
                       LAMBDA row : \A i \in 1..Len(fs) : FilterMatches(row, fs[i]))
        ELSE searched

\* code-unit order of the characters the model's strings are made of
CodeOrder == "\t\n\r ()+-0123456789ABCDEFGHIJKLMNOPQRSTUVWXYZ_abcdefghijklmnopqrstuvwxyz"

CharCode(c) == CHOOSE i \in 1..Len(CodeOrder) : Char(CodeOrder, i) = c

RECURSIVE StrLt(_, _)
StrLt(a, b) ==
    IF b = "" THEN FALSE
    ELSE IF a = "" THEN TRUE
    ELSE IF Char(a, 1) = Char(b, 1) THEN StrLt(Drop(a, 1), Drop(b, 1))
    ELSE CharCode(Char(a, 1)) < CharCode(Char(b, 1))

\* a < b on JavaScript values: strings by code units, anything else as numbers
JsLt(a, b) ==
    IF a.t = "string" /\ b.t = "string" THEN StrLt(a.v, b.v)
    ELSE NumLt(Number(a), Number(b))

\* the comparator handed to Array.prototype.sort by sortRows
SortCompare(a, b, s) ==
    LET aValue == Coalesce(Get(a, s.column), JsStr(""))
        bValue == Coalesce(Get(b, s.column), JsStr(""))
    IN  IF JsLt(aValue, bValue) THEN (IF s.direction = "asc" THEN -1 ELSE 1)
        ELSE IF JsLt(bValue, aValue) THEN (IF s.direction = "asc" THEN 1 ELSE -1)
        ELSE 0

\* stable insertion of x: behind every element that does not compare after it
RECURSIVE InsertSorted(_, _, _)
InsertSorted(sorted, x, s) ==
    IF sorted = <<>> THEN <<x>>
    ELSE IF SortCompare(sorted[Len(sorted)], x, s) <= 0 THEN Append(sorted, x)
    ELSE Append(InsertSorted(SubSeq(sorted, 1, Len(sorted) - 1), x, s), sorted[Len(sorted)])

RECURSIVE StableSort(_, _)
StableSort(rs, s) ==
    IF rs = <<>> THEN <<>>
    ELSE InsertSorted(StableSort(SubSeq(rs, 1, Len(rs) - 1), s), rs[Len(rs)], s)

sortRows(rs, s) == IF s = NoSort THEN rs ELSE StableSort(rs, s)

\* whether the comparator of sortRows is a consistent comparator for these rows:
\* comparing equal, comparing before and comparing after are transitive
ConsistentComparator(rs, s) ==
    \A i, j, k \in 1..Len(rs) :
        /\ (SortCompare(rs[i], rs[j], s) = 0 /\ SortCompare(rs[j], rs[k], s) = 0)
                => SortCompare(rs[i], rs[k], s) = 0
        /\ (SortCompare(rs[i], rs[j], s) < 0 /\ SortCompare(rs[j], rs[k], s) < 0)
                => SortCompare(rs[i], rs[k], s) < 0
        /\ (SortCompare(rs[i], rs[j], s) > 0 /\ SortCompare(rs[j], rs[k], s) > 0)
                => SortCompare(rs[i], rs[k], s) > 0

RowPermutations(rs) ==
    {[i \in 1..Len(rs) |-> rs[p[i]]] :
        p \in {q \in [1..Len(rs) -> 1..Len(rs)] :
                    \A i, j \in 1..Len(rs) : i # j => q[i] # q[j]}}

\* the arrays [...rows].sort(comparator) can return: the stable sort when the
\* comparator is consistent for the rows, an order the engine is free to choose
\* when it is not
SortOutcomes(rs, s) ==
    IF s = NoSort THEN {rs}
    ELSE IF ConsistentComparator(rs, s) THEN {sortRows(rs, s)}
    ELSE RowPermutations(rs)

\* a plausible slip: only the first filter of the list is applied
FilteredRowsMemoFirstFilter(rs, cols, text, fs) ==
    IF Len(rs) = 0 THEN <<>>
    ELSE filterRows(rs, cols, text, IF Len(fs) > 1 THEN <<fs[1]>> ELSE fs)

\* the memos of TableManager
FilteredRowsMemo(rs, cols, text, fs) ==
    IF Len(rs) = 0 THEN <<>> ELSE filterRows(rs, cols, text, fs)

pagedRows(rs, cols, text, fs, s, p, size) ==
    Slice(sortRows(FilteredRowsMemo(rs, cols, text, fs), s), p * size, p * size + size)

\* a plausible slip: the window runs one row into the next page
PageWindowOverlapping(sorted, p, size) ==
    IF Len(sorted) = 0 THEN <<>> ELSE Slice(sorted, p * size, p * size + size + 1)

\* the pagedRows memo for given sorted rows
PageWindow(sorted, p, size) ==
    IF Len(sorted) = 0 THEN <<>> ELSE Slice(sorted, p * size, p * size + size)

(***************************************************************************)
(* Export projector of AdvancedExport                                      *)
(***************************************************************************)
\* the body of filters.every(...) in getExportData
ExportFilterMatches(row, filter) ==
    LET value == Get(row, filter.column)
        filterValue == filter.value
    IN  CASE filter.operator = "equals" ->
                ToLowerCase(String(value)) = ToLowerCase(String(filterValue))
          [] filter.operator = "contains" ->
                Includes(ToLowerCase(String(value)), ToLowerCase(String(filterValue)))
          [] filter.operator = "startsWith" ->
                StartsWith(ToLowerCase(String(value)), ToLowerCase(String(filterValue)))
          [] filter.operator = "endsWith" ->
                EndsWith(ToLowerCase(String(value)), ToLowerCase(String(filterValue)))
          [] filter.operator = "greaterThan" -> NumGt(Number(value), Number(filterValue))
          [] filter.operator = "lessThan" -> NumLt(Number(value), Number(filterValue))
          [] filter.operator = "between" ->
                /\ NumGe(Number(value), Number(filterValue))
                /\ NumLe(Number(value), Number(filter.value2))
          [] filter.operator = "isEmpty" -> IsNullish(value) \/ Trim(String(value)) = ""
          [] filter.operator = "isNotEmpty" ->
                (~IsNullish(value)) /\ Trim(String(value)) # ""
          [] OTHER -> TRUE

VisibleColumns(cols) == SelectSeq(cols, LAMBDA col : col.visible)

\* a plausible slip: 'selected' with nothing selected exports every row
getExportDataSelectedOrAll(scope, rs, cols, sel, text, fs) ==
    IF scope = "selected"
    THEN [rows |-> IF Len(sel) = 0 THEN rs
                   ELSE SelectSeq(rs, LAMBDA row : ArrayIncludes(sel, Get(row, "id"))),
          columns |-> VisibleColumns(cols)]
    ELSE [rows |-> rs, columns |-> VisibleColumns(cols)]

\* a plausible slip: 'visible' is taken to mean the rows the table shows
getExportDataVisibleRows(scope, rs, cols, sel, text, fs) ==
    IF scope = "visible"
    THEN [rows |-> filterRows(rs, cols, text, fs), columns |-> VisibleColumns(cols)]
    ELSE [rows |-> rs, columns |-> VisibleColumns(cols)]

getExportData(scope, rs, cols, sel, text, fs) ==
    CASE scope = "visible" -> [rows |-> rs, columns |-> VisibleColumns(cols)]
      [] scope = "selected" ->
            IF Len(sel) = 0 THEN [rows |-> <<>>, columns |-> <<>>]
            ELSE [rows |-> SelectSeq(rs, LAMBDA row : ArrayIncludes(sel, Get(row, "id"))),
                  columns |-> VisibleColumns(cols)]
      [] scope = "filtered" ->
            LET searched == IF text # ""
                            THEN SelectSeq(rs, LAMBDA row : SearchMatches(row, cols, text))
                            ELSE rs
            IN  [rows |-> SelectSeq(searched,
                             LAMBDA row : \A i \in 1..Len(fs) : ExportFilterMatches(row, fs[i])),
                 columns |-> VisibleColumns(cols)]
      [] OTHER -> [rows |-> rs, columns |-> VisibleColumns(cols)]

(***************************************************************************)
(* Initial state: tableSlice's initialState and the components' useState   *)
(***************************************************************************)
Column(id, label) == [id |-> id, label |-> label, visible |-> TRUE, editable |-> TRUE]

InitialColumns ==
    <<Column("name", "Name"), Column("email", "Email"),
      Column("age", "Age"), Column("role", "Role")>>

ColumnIds(cols) == [i \in 1..Len(cols) |-> cols[i].id]

NoId == JsNull

NoFile == [name |-> "", data |-> <<>>, chosen |-> FALSE]

NotRendered == [done |-> FALSE, rows |-> <<>>]

NotExported == [scope |-> "none", rows |-> <<>>, columns |-> <<>>]

NoWindows == [size |-> 0, shown |-> EmptyObject]

NoOutcome == [kind |-> "none"]

InitialState ==
    /\ columns = InitialColumns
    /\ rows = <<>>
    /\ search = ""
    /\ sort = NoSort
    /\ page = 0
    /\ pageSize = 10
    /\ editingRows = <<>>
    /\ selectedRows = <<>>
    /\ filters = <<>>
    /\ activityLog = <<>>
    /\ savedViews = <<>>

InitialLocals ==
    /\ formValues = EmptyObject
    /\ deleteDialog = NoId
    /\ pendingImport = NoFile
    /\ addColumnError = ""
    /\ columnOrder = ColumnIds(columns)
    /\ clock = 0
    /\ nextId = 0
    /\ snapshots = EmptyObject
    /\ filteredRows = NotRendered
    /\ exported = NotExported
    /\ sortedRows = <<>>
    /\ pageWindows = NoWindows
    /\ exportOutcome = NoOutcome
    /\ addFilterOutcome = NoOutcome

Init == InitialState /\ InitialLocals

(***************************************************************************)
(* Reducers of tableSlice                                                  *)
(***************************************************************************)
LogLimit == 1000

\* the entry logActivity builds: { id, timestamp, user, ...payload }
LogEntry(now, action, details) ==
    [id |-> NatToDigits(now), timestamp |-> now, user |-> "Current User",
     action |-> action, details |-> details]

\* a plausible slip: the new entry is pushed at the end and the head is kept
logActivityPush(log, now, action, details) ==
    LET pushed == Append(log, LogEntry(now, action, details))
    IN  IF Len(pushed) > LogLimit THEN SubSeq(pushed, 1, LogLimit) ELSE pushed

logActivity(log, now, action, details) ==
    LET unshifted == <<LogEntry(now, action, details)>> \o log
    IN  IF Len(unshifted) > LogLimit THEN SubSeq(unshifted, 1, LogLimit) ELSE unshifted

addRow(rs, row) == Append(rs, row)

\* index of the first row with this id, 0 for findIndex's -1
FindIndex(rs, id) ==
    IF \E i \in 1..Len(rs) : Get(rs[i], "id") = id
    THEN CHOOSE i \in 1..Len(rs) :
            /\ Get(rs[i], "id") = id
            /\ \A j \in 1..(i - 1) : Get(rs[j], "id") # id
    ELSE 0

\* a plausible slip: the changes replace the row instead of being merged
updateRowReplacing(rs, id, changes) ==
    LET rowIndex == FindIndex(rs, id)
    IN  IF rowIndex # 0 THEN [rs EXCEPT ![rowIndex] = changes] ELSE rs

updateRow(rs, id, changes) ==
    LET rowIndex == FindIndex(rs, id)
    IN  IF rowIndex # 0 THEN [rs EXCEPT ![rowIndex] = Spread(rs[rowIndex], changes)] ELSE rs

deleteRow(rs, id) == SelectSeq(rs, LAMBDA r : Get(r, "id") # id)

toggleRowSelection(sel, rowId) ==
    IF ArrayIncludes(sel, rowId)
    THEN SelectSeq(sel, LAMBDA id : id # rowId)
    ELSE Append(sel, rowId)

\* a plausible slip: only the first of the identities is removed
bulkDeleteRowsFirstOnly(rs, ids) ==
    IF ids = <<>> THEN rs ELSE SelectSeq(rs, LAMBDA row : Get(row, "id") # ids[1])

bulkDeleteRows(rs, ids) == SelectSeq(rs, LAMBDA row : ~ArrayIncludes(ids, Get(row, "id")))

\* a plausible slip: the updates are applied to every row
bulkUpdateRowsAll(rs, ids, updates) == [i \in 1..Len(rs) |-> Spread(rs[i], updates)]

bulkUpdateRows(rs, ids, updates) ==
    [i \in 1..Len(rs) |->
        IF ArrayIncludes(ids, Get(rs[i], "id")) THEN Spread(rs[i], updates) ELSE rs[i]]

(***************************************************************************)
(* Handlers of TableManager and BulkActions                                *)
(***************************************************************************)
MaxIds == 2

MaxClock == 2

\* uuidv4(): the k-th identity of a handler run, never one handed out before
Uuid(k) == JsStr("u" \o NatToDigits(nextId + k))

\* the rows the table body shows
Displayed == pagedRows(rows, columns, search, filters, sort, page, pageSize)

DisplayedIds == SeqToSet(RowIds(Displayed))

viewVars == <<search, sort, filters, savedViews, snapshots>>

pageVars == <<page, pageSize>>

memoVars == <<sortedRows, pageWindows, exportOutcome, addFilterOutcome>>

harnessVars == <<filteredRows, exported, addColumnError, columnOrder, memoVars>>

rowVars == <<rows, editingRows, selectedRows, formValues, deleteDialog, pendingImport, nextId>>

handleSelectRow(id) ==
    /\ id \in DisplayedIds
    /\ selectedRows' = toggleRowSelection(selectedRows, id)
    /\ UNCHANGED <<columns, rows, editingRows, activityLog, formValues, deleteDialog,
                   pendingImport, clock, nextId>>
    /\ UNCHANGED <<viewVars, pageVars, harnessVars>>

\* the header checkbox shows isAllSelected and reports the opposite when clicked
handleSelectAllRows ==
    LET isAllSelected == Len(Displayed) > 0 /\ Len(selectedRows) = Len(Displayed)
        checked == ~isAllSelected
    IN  /\ selectedRows' = IF checked THEN RowIds(Displayed) ELSE <<>>
        /\ UNCHANGED <<columns, rows, editingRows, activityLog, formValues, deleteDialog,
                       pendingImport, clock, nextId>>
        /\ UNCHANGED <<viewVars, pageVars, harnessVars>>

handleAddRow ==
    LET shown == VisibleColumns(columns)
        newRow == [k \in {shown[i].id : i \in 1..Len(shown)} \cup {"id"} |->
                      IF k = "id" THEN Uuid(1) ELSE JsStr("")]
    IN  /\ nextId < MaxIds
        /\ clock < MaxClock
        /\ nextId' = nextId + 1
        /\ clock' = clock + 1
        /\ formValues' = newRow
        /\ rows' = addRow(rows, newRow)
        /\ editingRows' = Append(editingRows, newRow.id)
        /\ activityLog' = logActivity(activityLog, clock', "create",
                                      "Created new row " \o String(newRow.id))
        /\ UNCHANGED <<columns, selectedRows, deleteDialog, pendingImport>>
        /\ UNCHANGED <<viewVars, pageVars, harnessVars>>

\* the Edit button of a shown row that is not being edited
handleEditRow(id) ==
    /\ id \in DisplayedIds
    /\ ~ArrayIncludes(editingRows, id)
    /\ FindIndex(rows, id) # 0
    /\ formValues' = rows[FindIndex(rows, id)]
    /\ editingRows' = Append(editingRows, id)
    /\ UNCHANGED <<columns, rows, selectedRows, activityLog, deleteDialog, pendingImport,
                   clock, nextId>>
    /\ UNCHANGED <<viewVars, pageVars, harnessVars>>

FormTexts == {"x"}

FormColumns == {"name"}

\* typing in the text field of a visible column of a row that is being edited
handleFieldChange(column, text) ==
    /\ \E id \in DisplayedIds : ArrayIncludes(editingRows, id)
    /\ \E i \in 1..Len(columns) : columns[i].id = column /\ columns[i].visible
    /\ formValues' = Spread(formValues, [k \in {column} |-> JsStr(text)])
    /\ UNCHANGED <<columns, rows, editingRows, selectedRows, activityLog, deleteDialog,
                   pendingImport, clock, nextId>>
    /\ UNCHANGED <<viewVars, pageVars, harnessVars>>

\* the Save button of a shown row that is being edited; handleSubmit passes the
\* form's values, no field of the form has a validation rule
handleSaveRow(i) ==
    LET row == Displayed[i]
        id == Get(row, "id")
    IN  /\ ArrayIncludes(editingRows, id)
        /\ clock < MaxClock
        /\ clock' = clock + 1
        /\ rows' = updateRow(rows, id, formValues)
        /\ activityLog' = logActivity(activityLog, clock', "update",
                                      "Updated row " \o String(id))
        /\ editingRows' = SelectSeq(editingRows, LAMBDA rowId : rowId # id)
        /\ UNCHANGED <<columns, selectedRows, formValues, deleteDialog, pendingImport, nextId>>
        /\ UNCHANGED <<viewVars, pageVars, harnessVars>>

handleCancelEdit(id) ==
    /\ id \in DisplayedIds
    /\ ArrayIncludes(editingRows, id)
    /\ editingRows' = SelectSeq(editingRows, LAMBDA rowId : rowId # id)
    /\ UNCHANGED <<columns, rows, selectedRows, activityLog, formValues, deleteDialog,
                   pendingImport, clock, nextId>>
    /\ UNCHANGED <<viewVars, pageVars, harnessVars>>

\* the Delete button of a shown row that is not being edited opens the dialog
handleDeleteRow(id) ==
    /\ id \in DisplayedIds
    /\ ~ArrayIncludes(editingRows, id)
    /\ deleteDialog = NoId
    /\ deleteDialog' = id
    /\ UNCHANGED <<columns, rows, editingRows, selectedRows, activityLog, formValues,
                   pendingImport, clock, nextId>>
    /\ UNCHANGED <<viewVars, pageVars, harnessVars>>

confirmDelete ==
    /\ deleteDialog # NoId
    /\ Truthy(deleteDialog)
    /\ clock < MaxClock
    /\ clock' = clock + 1
    /\ rows' = deleteRow(rows, deleteDialog)
    /\ activityLog' = logActivity(activityLog, clock', "delete",
                                  "Deleted row " \o String(deleteDialog))
    /\ deleteDialog' = NoId
    /\ UNCHANGED <<columns, editingRows, selectedRows, formValues, pendingImport, nextId>>
    /\ UNCHANGED <<viewVars, pageVars, harnessVars>>

\* a plausible slip: the rows are removed and nothing is logged
handleBulkDeleteUnlogged ==
    /\ Len(selectedRows) > 0
    /\ rows' = bulkDeleteRows(rows, selectedRows)
    /\ selectedRows' = <<>>
    /\ UNCHANGED <<columns, editingRows, formValues, deleteDialog, pendingImport, nextId,
                   activityLog, clock>>
    /\ UNCHANGED <<viewVars, pageVars, harnessVars>>

\* BulkActions is rendered only while something is selected
handleBulkDelete ==
    /\ Len(selectedRows) > 0
    /\ clock < MaxClock
    /\ clock' = clock + 1
    /\ rows' = bulkDeleteRows(rows, selectedRows)
    /\ selectedRows' = <<>>
    /\ activityLog' = logActivity(activityLog, clock', "delete",
            "Bulk deleted " \o NatToDigits(Len(selectedRows)) \o " rows")
    /\ UNCHANGED <<columns, editingRows, formValues, deleteDialog, pendingImport, nextId>>
    /\ UNCHANGED <<viewVars, pageVars, harnessVars>>

BulkValues == {"x"}

BulkFields == {"name", "id"}

\* the field is one of the editable columns, the value what was typed
handleBulkEdit(editField, editValue) ==
    /\ Len(selectedRows) > 0
    /\ \E i \in 1..Len(columns) : columns[i].id = editField /\ columns[i].editable
    /\ editField # "" /\ editValue # ""
    /\ clock < MaxClock
    /\ clock' = clock + 1
    /\ rows' = bulkUpdateRows(rows, selectedRows, [k \in {editField} |-> JsStr(editValue)])
    /\ selectedRows' = <<>>
    /\ activityLog' = logActivity(activityLog, clock', "update",
            "Bulk updated " \o NatToDigits(Len(selectedRows)) \o " rows: "
                \o editField \o " = " \o editValue)
    /\ UNCHANGED <<columns, editingRows, formValues, deleteDialog, pendingImport, nextId>>
    /\ UNCHANGED <<viewVars, pageVars, harnessVars>>

\* a plausible slip: the duplicate handler leaves the selection as it was
SelectionAfterDuplicateKept(sel) == sel

\* handleBulkDuplicate ends with dispatch(setSelectedRows([]))
SelectionAfterDuplicate(sel) == <<>>

handleBulkDuplicate ==
    LET selectedRowsData == SelectSeq(rows, LAMBDA row : ArrayIncludes(selectedRows, Get(row, "id")))
        duplicatedRows ==
            [i \in 1..Len(selectedRowsData) |->
                Spread(selectedRowsData[i],
                       [id |-> Uuid(i),
                        name |-> JsStr(String(Get(selectedRowsData[i], "name")) \o " (Copy)")])]
    IN  /\ Len(selectedRows) > 0
        /\ nextId + Len(duplicatedRows) <= MaxIds
        /\ clock < MaxClock
        /\ clock' = clock + 1
        /\ nextId' = nextId + Len(duplicatedRows)
        /\ rows' = rows \o duplicatedRows
        /\ activityLog' = logActivity(activityLog, clock', "create",
                "Duplicated " \o NatToDigits(Len(selectedRows)) \o " rows")
        /\ selectedRows' = SelectionAfterDuplicate(selectedRows)
        /\ UNCHANGED <<columns, editingRows, formValues, deleteDialog, pendingImport>>
        /\ UNCHANGED <<viewVars, pageVars, harnessVars>>

\* the files a user may choose: parsed records hold strings only
ImportFiles ==
    {[name |-> "a.csv", chosen |-> TRUE,
      data |-> <<[id |-> JsStr("u1"), name |-> JsStr("a")], [name |-> JsStr("b")]>>]}

\* a file is chosen: Papa.parse starts reading it
handleImportCSV(file) ==
    /\ ~pendingImport.chosen
    /\ pendingImport' = file
    /\ UNCHANGED <<columns, rows, editingRows, selectedRows, activityLog, formValues,
                   deleteDialog, clock, nextId>>
    /\ UNCHANGED <<viewVars, pageVars, harnessVars>>

\* a plausible slip: the spread is written the other way round and a record's
\* own id wins over the generated one
importCompleteKeepingIds ==
    LET importedData ==
            [i \in 1..Len(pendingImport.data) |->
                Spread([id |-> Uuid(i)], pendingImport.data[i])]
    IN  /\ pendingImport.chosen
        /\ nextId + Len(importedData) <= MaxIds
        /\ clock < MaxClock
        /\ clock' = clock + 1
        /\ nextId' = nextId + Len(importedData)
        /\ rows' = importedData
        /\ activityLog' = logActivity(activityLog, clock', "import",
                "Imported " \o NatToDigits(Len(importedData)) \o " rows from "
                    \o pendingImport.name)
        /\ pendingImport' = NoFile
        /\ UNCHANGED <<columns, editingRows, selectedRows, formValues, deleteDialog>>
        /\ UNCHANGED <<viewVars, pageVars, harnessVars>>

\* Papa.parse's complete callback
importComplete ==
    LET importedData ==
            [i \in 1..Len(pendingImport.data) |->
                Spread(pendingImport.data[i], [id |-> Uuid(i)])]
    IN  /\ pendingImport.chosen
        /\ nextId + Len(importedData) <= MaxIds
        /\ clock < MaxClock
        /\ clock' = clock + 1
        /\ nextId' = nextId + Len(importedData)
        /\ rows' = importedData
        /\ activityLog' = logActivity(activityLog, clock', "import",
                "Imported " \o NatToDigits(Len(importedData)) \o " rows from "
                    \o pendingImport.name)
        /\ pendingImport' = NoFile
        /\ UNCHANGED <<columns, editingRows, selectedRows, formValues, deleteDialog>>
        /\ UNCHANGED <<viewVars, pageVars, harnessVars>>

MaxColumns == 6

\* the columns effect of TableManager: every column is made editable
EnsureEditable(cols) ==
    IF \E i \in 1..Len(cols) : ~cols[i].editable
    THEN [i \in 1..Len(cols) |-> [cols[i] EXCEPT !.editable = TRUE]]
    ELSE cols

\* the columnOrder effect of TableManager: resynchronised when the set of
\* identities differs from the set of column identities
SyncColumnOrder(cols, order) ==
    IF Len(cols) = 0 THEN order
    ELSE IF SeqToSet(ColumnIds(cols)) # SeqToSet(order) THEN ColumnIds(cols)
    ELSE order

\* dispatch(setColumns(cols)) followed by the two effects on columns
SetColumnsAndSync(cols, order) ==
    /\ columns' = EnsureEditable(cols)
    /\ columnOrder' = SyncColumnOrder(EnsureEditable(cols), order)

\* the identity handleAddColumn derives from the typed name
ColumnIdOf(name) == ReplaceWhiteRuns(ToLowerCase(Trim(name)))

\* a plausible slip: the labels are compared as typed, case included
handleAddColumnCaseSensitive(addColumnName) ==
    /\ Len(columns) < MaxColumns
    /\ IF Trim(addColumnName) = ""
       THEN /\ addColumnError' = "Column name cannot be empty."
            /\ UNCHANGED <<columns, columnOrder>>
       ELSE IF \E i \in 1..Len(columns) : columns[i].label = Trim(addColumnName)
       THEN /\ addColumnError' = "Column name must be unique."
            /\ UNCHANGED <<columns, columnOrder>>
       ELSE /\ SetColumnsAndSync(Append(columns,
                                    [id |-> ColumnIdOf(addColumnName),
                                     label |-> Trim(addColumnName),
                                     visible |-> TRUE, editable |-> TRUE]),
                                 columnOrder)
            /\ addColumnError' = ""
    /\ UNCHANGED <<activityLog, clock, filteredRows, exported, memoVars>>
    /\ UNCHANGED <<rowVars, viewVars, pageVars>>

handleAddColumn(addColumnName) ==
    /\ Len(columns) < MaxColumns
    /\ IF Trim(addColumnName) = ""
       THEN /\ addColumnError' = "Column name cannot be empty."
            /\ UNCHANGED <<columns, columnOrder>>
       ELSE IF \E i \in 1..Len(columns) :
                    ToLowerCase(columns[i].label) = ToLowerCase(Trim(addColumnName))
       THEN /\ addColumnError' = "Column name must be unique."
            /\ UNCHANGED <<columns, columnOrder>>
       ELSE /\ SetColumnsAndSync(Append(columns,
                                    [id |-> ColumnIdOf(addColumnName),
                                     label |-> Trim(addColumnName),
                                     visible |-> TRUE, editable |-> TRUE]),
                                 columnOrder)
            /\ addColumnError' = ""
    /\ UNCHANGED <<activityLog, clock, filteredRows, exported, memoVars>>
    /\ UNCHANGED <<rowVars, viewVars, pageVars>>

RowColumnNames == {"Id"}

Next ==
    \/ \E id \in DisplayedIds : handleSelectRow(id)
    \/ handleSelectAllRows
    \/ handleAddRow
    \/ \E id \in DisplayedIds : handleEditRow(id)
    \/ \E column \in FormColumns, text \in FormTexts : handleFieldChange(column, text)
    \/ \E i \in 1..Len(Displayed) : handleSaveRow(i)
    \/ \E id \in DisplayedIds : handleCancelEdit(id)
    \/ \E id \in DisplayedIds : handleDeleteRow(id)
    \/ confirmDelete
    \/ handleBulkDelete
    \/ \E editField \in BulkFields, editValue \in BulkValues :
            handleBulkEdit(editField, editValue)
    \/ handleBulkDuplicate
    \/ \E file \in ImportFiles : handleImportCSV(file)
    \/ importComplete
    \/ \E name \in RowColumnNames : handleAddColumn(name)

Spec == Init /\ [][Next]_vars

(***************************************************************************)
(* Handlers of the column manager, AdvancedFilters and SavedViews          *)
(***************************************************************************)
MaxViews == 2

MaxViewClock == 3

MaxFilters == 1

handleToggleColumn(columnId) ==
    /\ \E i \in 1..Len(columns) : columns[i].id = columnId
    /\ SetColumnsAndSync([i \in 1..Len(columns) |->
                            IF columns[i].id = columnId
                            THEN [columns[i] EXCEPT !.visible = ~columns[i].visible]
                            ELSE columns[i]],
                         columnOrder)
    /\ UNCHANGED <<activityLog, clock, filteredRows, exported, addColumnError, memoVars>>
    /\ UNCHANGED <<rowVars, viewVars, pageVars>>

IndexOf(s, x) == CHOOSE i \in 1..Len(s) : s[i] = x /\ \A j \in 1..(i - 1) : s[j] # x

\* array.splice(at, 1) and array.splice(at, 0, x), at counted from 1
RemoveAt(s, at) == SubSeq(s, 1, at - 1) \o SubSeq(s, at + 1, Len(s))

InsertAt(s, at, x) ==
    LET pos == IF at > Len(s) + 1 THEN Len(s) + 1 ELSE at
    IN  SubSeq(s, 1, pos - 1) \o <<x>> \o SubSeq(s, pos, Len(s))

\* a header cell is dragged onto another one; header cells exist for the
\* visible columns that columnOrder names
handleDrop(draggedColumn, targetId) ==
    LET dragIndex == IndexOf(columnOrder, draggedColumn)
        targetIndex == IndexOf(columnOrder, targetId)
        newOrder == InsertAt(RemoveAt(columnOrder, dragIndex), targetIndex, draggedColumn)
        found == SelectSeq(newOrder,
                    LAMBDA id : \E i \in 1..Len(columns) : columns[i].id = id)
        newColumns == [k \in 1..Len(found) |->
                          columns[CHOOSE i \in 1..Len(columns) :
                                      /\ columns[i].id = found[k]
                                      /\ \A j \in 1..(i - 1) : columns[j].id # found[k]]]
    IN  /\ draggedColumn # targetId
        /\ \A id \in {draggedColumn, targetId} :
              /\ ArrayIncludes(columnOrder, id)
              /\ \E i \in 1..Len(columns) : columns[i].id = id /\ columns[i].visible
        /\ SetColumnsAndSync(newColumns, newOrder)
        /\ UNCHANGED <<activityLog, clock, filteredRows, exported, addColumnError, memoVars>>
        /\ UNCHANGED <<rowVars, viewVars, pageVars>>

handleSearch(text) ==
    /\ search' = text
    /\ UNCHANGED <<columns, sort, filters, savedViews, snapshots, activityLog, clock>>
    /\ UNCHANGED <<rowVars, pageVars, harnessVars>>

\* a click on the header of a visible column
handleSort(columnId) ==
    LET isAsc == sort # NoSort /\ sort.column = columnId /\ sort.direction = "asc"
    IN  /\ \E i \in 1..Len(columns) : columns[i].id = columnId /\ columns[i].visible
        /\ sort' = [column |-> columnId, direction |-> IF isAsc THEN "desc" ELSE "asc"]
        /\ UNCHANGED <<columns, search, filters, savedViews, snapshots, activityLog, clock>>
        /\ UNCHANGED <<rowVars, pageVars, harnessVars>>

\* Add Filter with the filter being composed in the dialog
handleAddFilter(currentFilter) ==
    /\ Len(filters) < MaxFilters
    /\ currentFilter.column # ""
    /\ currentFilter.operator # ""
    /\ currentFilter.value # JsStr("")
    /\ filters' = Append(filters, currentFilter)
    /\ UNCHANGED <<columns, search, sort, savedViews, snapshots, activityLog, clock>>
    /\ UNCHANGED <<rowVars, pageVars, harnessVars>>

\* the delete icon of the index-th chip (counted from 0): filters.splice(index, 1)
handleRemoveFilter(index) ==
    /\ index < Len(filters)
    /\ filters' = RemoveAt(filters, index + 1)
    /\ UNCHANGED <<columns, search, sort, savedViews, snapshots, activityLog, clock>>
    /\ UNCHANGED <<rowVars, pageVars, harnessVars>>

\* Clear All Filters is shown while there is a filter
handleClearAllFilters ==
    /\ Len(filters) > 0
    /\ filters' = <<>>
    /\ UNCHANGED <<columns, search, sort, savedViews, snapshots, activityLog, clock>>
    /\ UNCHANGED <<rowVars, pageVars, harnessVars>>

\* the live query state a view captures
LiveQuery == [columns |-> columns, filters |-> filters, sort |-> sort, search |-> search]

ViewQuery(view) ==
    [columns |-> view.columns, filters |-> view.filters, sort |-> view.sort,
     search |-> view.search]

\* a plausible slip: a view of the same name is overwritten instead of a new
\* one being pushed
saveViewByName(views, now, payload) ==
    IF \E i \in 1..Len(views) : views[i].name = payload.name
    THEN [i \in 1..Len(views) |->
            IF views[i].name = payload.name
            THEN [id |-> views[i].id, timestamp |-> now] @@ payload
            ELSE views[i]]
    ELSE Append(views, [id |-> NatToDigits(now), timestamp |-> now] @@ payload)

\* { id: Date.now().toString(), timestamp, ...payload } is pushed
saveView(views, now, payload) ==
    Append(views, [id |-> NatToDigits(now), timestamp |-> now] @@ payload)

\* savedViews.find(v => v.id === viewId): index of the first match, 0 if none
FindView(views, viewId) ==
    IF \E i \in 1..Len(views) : views[i].id = viewId
    THEN CHOOSE i \in 1..Len(views) :
            /\ views[i].id = viewId
            /\ \A j \in 1..(i - 1) : views[j].id # viewId
    ELSE 0

\* a plausible slip: the search text is not restored
loadViewKeepingSearch(view, live) ==
    [columns |-> view.columns, filters |-> view.filters, sort |-> view.sort,
     search |-> live.search]

\* what loadView assigns to the live columns, filters, sort and search
loadView(view, live) ==
    [columns |-> view.columns, filters |-> view.filters, sort |-> view.sort,
     search |-> view.search]

ViewNames == {"v"}

\* every run of a handler that reads Date.now() reads a later time than the
\* runs before it: the handlers are separate clicks of one user
handleSaveCurrentView(viewName) ==
    /\ Trim(viewName) # ""
    /\ Len(savedViews) < MaxViews
    /\ clock < MaxViewClock
    /\ clock' = clock + 1
    /\ savedViews' = saveView(savedViews, clock',
                              [name |-> Trim(viewName)] @@ LiveQuery)
    /\ snapshots' = [k \in (DOMAIN snapshots) \cup {NatToDigits(clock')} |->
                        IF k = NatToDigits(clock') THEN LiveQuery ELSE snapshots[k]]
    /\ activityLog' = logActivity(activityLog, clock', "create",
                                  "Saved view: " \o viewName)
    /\ UNCHANGED <<columns, search, sort, filters>>
    /\ UNCHANGED <<rowVars, pageVars, harnessVars>>

\* the Load button of a listed view
handleLoadView(viewId) ==
    LET at == FindView(savedViews, viewId)
        loaded == loadView(savedViews[at], LiveQuery)
    IN  /\ at # 0
        /\ clock < MaxViewClock
        /\ clock' = clock + 1
        /\ SetColumnsAndSync(loaded.columns, columnOrder)
        /\ filters' = loaded.filters
        /\ sort' = loaded.sort
        /\ search' = loaded.search
        /\ page' = 0
        /\ activityLog' = logActivity(activityLog, clock', "update",
                                      "Loaded view: " \o savedViews[at].name)
        /\ UNCHANGED <<savedViews, snapshots, pageSize, filteredRows, exported,
                       addColumnError, memoVars>>
        /\ UNCHANGED rowVars

\* the Delete button of a listed view
handleDeleteView(viewId) ==
    LET at == FindView(savedViews, viewId)
    IN  /\ at # 0
        /\ clock < MaxViewClock
        /\ clock' = clock + 1
        /\ savedViews' = SelectSeq(savedViews, LAMBDA v : v.id # viewId)
        /\ activityLog' = logActivity(activityLog, clock', "delete",
                                      "Deleted view: " \o savedViews[at].name)
        /\ UNCHANGED <<columns, search, sort, filters, snapshots>>
        /\ UNCHANGED <<rowVars, pageVars, harnessVars>>

ViewIds == {savedViews[i].id : i \in 1..Len(savedViews)}

ViewFilters ==
    {[column |-> "age", operator |-> "greaterThan", value |-> JsStr("1"), value2 |-> JsUndef]}

NextViews ==
    \/ \E name \in ViewNames : handleSaveCurrentView(name)
    \/ \E id \in ViewIds : handleLoadView(id)
    \/ \E id \in ViewIds : handleDeleteView(id)
    \/ \E text \in {"", "a"} : handleSearch(text)
    \/ handleSort("age")
    \/ \E f \in ViewFilters : handleAddFilter(f)
    \/ \E index \in 0..(MaxFilters - 1) : handleRemoveFilter(index)
    \/ handleClearAllFilters
    \/ handleToggleColumn("role")

SpecViews == Init /\ [][NextViews]_vars

ColumnNames == {"a b", "a_b", " ", "AGE"}

NextColumns ==
    \/ \E name \in ColumnNames : handleAddColumn(name)
    \/ handleToggleColumn("role")
    \/ \E pair \in {<<"name", "email">>, <<"email", "name">>} : handleDrop(pair[1], pair[2])
    \/ \E name \in ViewNames : handleSaveCurrentView(name)
    \/ \E id \in ViewIds : handleLoadView(id)
    \/ \E id \in ViewIds : handleDeleteView(id)

SpecColumns == Init /\ [][NextColumns]_vars

(***************************************************************************)
(* Claims on the saved views and the column registry                       *)
(***************************************************************************)
LastLogged(details) == activityLog # <<>> /\ activityLog[1].details = details

\* C3: loading a saved view makes the live columns, filters, sort and search
\* equal to what they were when that view was saved, whatever was done to
\* them, and whatever other views were saved, in between.
C3_ViewRoundTrip ==
    [][\A id \in ViewIds : handleLoadView(id) => LiveQuery' = snapshots[id]]_vars

C3_Witness ==
    /\ LastLogged("Loaded view: v")
    /\ Len(savedViews) = 2
    /\ ViewQuery(savedViews[1]) # ViewQuery(savedViews[2])
    /\ LiveQuery = snapshots[savedViews[1].id]
    /\ LiveQuery.filters # <<>> /\ LiveQuery.search # "" /\ LiveQuery.sort # NoSort

\* C4: a saved view keeps the columns, filters, sort and search it was saved
\* with for as long as it exists.
C4_ViewImmutable ==
    \A i \in 1..Len(savedViews) :
        ViewQuery(savedViews[i]) = snapshots[savedViews[i].id]

C4_Witness ==
    /\ LastLogged("Loaded view: v")
    /\ Len(savedViews) = 1
    /\ LiveQuery # ViewQuery(savedViews[1])
    /\ LiveQuery.filters # ViewQuery(savedViews[1]).filters
    /\ LiveQuery.columns # ViewQuery(savedViews[1]).columns

\* C6: no two columns of the registry have the same identity.
C6_ColumnIdsUnique ==
    \A i, j \in 1..Len(columns) : columns[i].id = columns[j].id => i = j

(***************************************************************************)
(* Claims on the row store and the selection                               *)
(***************************************************************************)
\* C2: every identity in the selection is the identity of a row in the store.
C2_SelectionExists ==
    \A i \in 1..Len(selectedRows) : ArrayIncludes(RowIds(rows), selectedRows[i])

\* C5: a bulk delete removes every row whose identity is selected, keeps the
\* other rows as they were and in their order, and leaves the selection empty.
C5_BulkDelete ==
    [][handleBulkDelete =>
        /\ \A i \in 1..Len(rows') : Get(rows'[i], "id") \notin SeqToSet(selectedRows)
        /\ rows' = SelectSeq(rows, LAMBDA r : Get(r, "id") \notin SeqToSet(selectedRows))
        /\ selectedRows' = <<>>]_vars

C5_Witness ==
    /\ LastLogged("Bulk deleted 1 rows")
    /\ Len(rows) = 1
    /\ selectedRows = <<>>

\* C7: with identities that are never handed out twice, no two rows of the
\* store share an identity, and an update (the edit form's save, a bulk
\* update) leaves every row's identity as it was.
C7_RowIdentity ==
    [][/\ \A i, j \in 1..Len(rows') :
            Get(rows'[i], "id") = Get(rows'[j], "id") => i = j
       /\ ((\E i \in 1..Len(Displayed) : handleSaveRow(i))
            \/ (\E editField \in BulkFields, editValue \in BulkValues :
                    handleBulkEdit(editField, editValue)))
           => RowIds(rows') = RowIds(rows)]_vars

MaxAppends == 1002

dispatchLogActivity ==
    /\ clock < MaxAppends
    /\ clock' = clock + 1
    /\ activityLog' = logActivity(activityLog, clock', "export", "")
    /\ UNCHANGED <<columns, rows, editingRows, selectedRows, formValues, deleteDialog,
                   pendingImport, nextId>>
    /\ UNCHANGED <<viewVars, pageVars, harnessVars>>

NextLog == dispatchLogActivity

SpecLog == Init /\ [][NextLog]_vars

\* C8: after n appends the log holds min(n, 1000) entries, newest first: entry
\* i is the (n - i + 1)-th appended, so the entries dropped are the oldest.
\* (Under SpecLog the clock counts the appends and stamps each entry.)
C8_LogBounded ==
    /\ Len(activityLog) = (IF clock < 1000 THEN clock ELSE 1000)
    /\ \A i \in 1..Len(activityLog) : activityLog[i].timestamp = clock - i + 1

C8_Witness ==
    /\ clock = 1001
    /\ Len(activityLog) = 1000
    /\ activityLog[1].timestamp = 1001
    /\ \A i \in 1..Len(activityLog) : activityLog[i].timestamp # 1

(***************************************************************************)
(* The query pipeline and the export projector as pure functions: the      *)
(* table state is any state the persisted store can be rehydrated with     *)
(* (store.ts), so a row field holds any value of the TableRow type.        *)
(***************************************************************************)
MaxQueryRows == 2

MaxQueryFilters == 1

QueryValues ==
    {JsStr(""), JsStr("a"), JsStr("1"), JsStr(" "), JsNum(0), JsNum(7),
     JsBool(FALSE), JsNull}

\* the i-th row of a rehydrated store: identity r<i>, field age present or
\* absent; the first row takes every value, the rows behind it a string or a
\* number
QueryRowsAt(i) ==
    IF i = 1
    THEN {[id |-> JsStr("r" \o NatToDigits(i))]}
            \cup {[id |-> JsStr("r" \o NatToDigits(i)), age |-> v] : v \in QueryValues}
    ELSE {[id |-> JsStr("r" \o NatToDigits(i)), age |-> v] : v \in {JsStr("a"), JsNum(0)}}

QueryRowSeqs ==
    UNION {{rs \in [1..n -> UNION {QueryRowsAt(i) : i \in 1..n}] :
                \A i \in 1..n : rs[i] \in QueryRowsAt(i)} : n \in 0..MaxQueryRows}

Operators ==
    {"equals", "contains", "startsWith", "endsWith", "greaterThan", "lessThan",
     "between", "isEmpty", "isNotEmpty"}

QueryFilters ==
    {[column |-> "age", operator |-> o, value |-> JsStr("a"), value2 |-> JsUndef] :
        o \in {"equals", "contains", "startsWith", "endsWith"}}
    \cup {[column |-> "age", operator |-> o, value |-> JsStr(x), value2 |-> JsUndef] :
        o \in {"greaterThan", "lessThan"}, x \in {"1", "a"}}
    \cup {[column |-> "age", operator |-> o, value |-> JsStr(""), value2 |-> JsUndef] :
        o \in {"isEmpty", "isNotEmpty"}}
    \cup {[column |-> "age", operator |-> "between", value |-> JsStr(x), value2 |-> y] :
        x \in {"0", "a"}, y \in {JsStr("7"), JsUndef}}

\* the first filter of a list is any of QueryFilters, the filters behind it
\* are contains or isNotEmpty
QueryFilterSeqs ==
    UNION {{fs \in [1..n -> QueryFilters] :
                \A i \in 2..n : fs[i].operator \in {"contains", "isNotEmpty"}} :
                n \in 0..MaxQueryFilters}

QueryColumnSets ==
    {[i \in 1..4 |-> IF InitialColumns[i].id = "age"
                     THEN [InitialColumns[i] EXCEPT !.visible = shown]
                     ELSE InitialColumns[i]] : shown \in BOOLEAN}

InitQuery ==
    /\ columns \in QueryColumnSets
    /\ rows \in QueryRowSeqs
    /\ search \in {"", "A", "R"}
    /\ filters \in QueryFilterSeqs
    /\ sort = NoSort
    /\ page = 0
    /\ pageSize = 10
    /\ editingRows = <<>>
    /\ selectedRows = <<>>
    /\ activityLog = <<>>
    /\ savedViews = <<>>
    /\ InitialLocals

\* TableManager renders: the filteredRows, sortedRows and pagedRows memos are
\* recomputed
Render ==
    /\ filteredRows' = [done |-> TRUE, rows |-> FilteredRowsMemo(rows, columns, search, filters)]
    /\ sortedRows' \in (IF Len(filteredRows'.rows) = 0 THEN {<<>>}
                        ELSE SortOutcomes(filteredRows'.rows, sort))
    /\ LET kept == IF pageWindows.size = pageSize /\ sortedRows' = sortedRows /\ filteredRows.done
                   THEN pageWindows.shown ELSE EmptyObject
       IN  pageWindows' =
              [size |-> pageSize,
               shown |-> [p \in (DOMAIN kept) \cup {page} |->
                            IF p = page THEN PageWindow(sortedRows', page, pageSize)
                            ELSE kept[p]]]
    /\ UNCHANGED <<columns, rows, search, sort, page, pageSize, editingRows, selectedRows,
                   filters, activityLog, savedViews, formValues, deleteDialog,
                   pendingImport, addColumnError, columnOrder, clock, nextId, snapshots,
                   exported, exportOutcome, addFilterOutcome>>

\* AdvancedExport renders with the chosen scope: getExportData() is recomputed
ExportPreview(scope) ==
    /\ exported' = [scope |-> scope] @@
                   getExportData(scope, rows, columns, selectedRows, search, filters)
    /\ UNCHANGED <<columns, rows, search, sort, page, pageSize, editingRows, selectedRows,
                   filters, activityLog, savedViews, formValues, deleteDialog,
                   pendingImport, addColumnError, columnOrder, clock, nextId, snapshots,
                   filteredRows, memoVars>>

NextQuery ==
    \/ Render
    \/ ExportPreview("filtered")

SpecQuery == InitQuery /\ [][NextQuery]_vars

(***************************************************************************)
(* Claims on the query pipeline                                            *)
(***************************************************************************)
\* a is b with some elements left out: same elements, same relative order
IsSubsequence(a, b) ==
    \E f \in [1..Len(a) -> 1..Len(b)] :
        /\ \A i \in 1..Len(a) : a[i] = b[f[i]]
        /\ \A i, j \in 1..Len(a) : i < j => f[i] < f[j]

\* C1: the rows filterRows returns are a subsequence of the rows it was given:
\* every returned row is one of them, none is repeated, their order is kept.
C1_FilterSubsequence ==
    filteredRows.done => IsSubsequence(filteredRows.rows, rows)

C1_Witness ==
    /\ filteredRows.done
    /\ Len(rows) = 2
    /\ Len(filteredRows.rows) = 1
    /\ Len(filters) = 1
    /\ search # ""

\* C10: the rows of a 'filtered' export are the rows the table's filterRows
\* yields for the same rows, columns, search and filters.
C10_FilteredExportIsPipeline ==
    (filteredRows.done /\ exported.scope = "filtered") => exported.rows = filteredRows.rows

\* a value the table treats as empty: null, absent, or blank once stringified
IsEmptyValue(x) == IsNullish(x) \/ Trim(String(x)) = ""

\* C11: with one isEmpty filter the table keeps exactly the rows whose targeted
\* value is null, absent or blank once stringified and trimmed, and with one
\* isNotEmpty filter exactly the other rows; 0 and false are not empty.
C11_EmptyOperators ==
    (/\ filteredRows.done
     /\ search = ""
     /\ Len(filters) = 1
     /\ filters[1].operator \in {"isEmpty", "isNotEmpty"})
        => filteredRows.rows =
              SelectSeq(rows, LAMBDA row :
                  IsEmptyValue(Get(row, filters[1].column)) = (filters[1].operator = "isEmpty"))

(***************************************************************************)
(* The filter stage under several filters at once                          *)
(***************************************************************************)
MaxConjFilters == 2

ConjFilters ==
    {[column |-> "age", operator |-> "contains", value |-> JsStr("a"), value2 |-> JsUndef],
     [column |-> "age", operator |-> "greaterThan", value |-> JsStr("0"), value2 |-> JsUndef],
     [column |-> "age", operator |-> "isEmpty", value |-> JsStr(""), value2 |-> JsUndef],
     [column |-> "age", operator |-> "isNotEmpty", value |-> JsStr(""), value2 |-> JsUndef]}

ConjFilterSeqs == UNION {[1..n -> ConjFilters] : n \in 0..MaxConjFilters}

InitFilters ==
    /\ columns = InitialColumns
    /\ rows \in QueryRowSeqs
    /\ search \in {"", "A"}
    /\ filters \in ConjFilterSeqs
    /\ sort = NoSort
    /\ page = 0
    /\ pageSize = 10
    /\ editingRows = <<>>
    /\ selectedRows = <<>>
    /\ activityLog = <<>>
    /\ savedViews = <<>>
    /\ InitialLocals

NextFilters == Render

SpecFilters == InitFilters /\ [][NextFilters]_vars

\* the orders a list can be put in
Reorderings(s) ==
    {[i \in 1..Len(s) |-> s[p[i]]] :
        p \in {q \in [1..Len(s) -> 1..Len(s)] : \A i, j \in 1..Len(s) : i # j => q[i] # q[j]}}

\* C12: the filter stage keeps a row iff the row satisfies every filter of the
\* list, so every reordering of the filters gives the same rows, and with no
\* filter (and no search text) every row is kept.
C12_FilterConjunction ==
    filteredRows.done =>
        /\ filteredRows.rows =
              SelectSeq(filterRows(rows, columns, search, <<>>),
                        LAMBDA row : \A i \in 1..Len(filters) : FilterMatches(row, filters[i]))
        /\ \A fs \in Reorderings(filters) :
              filterRows(rows, columns, search, fs) = filteredRows.rows
        /\ (filters = <<>> /\ search = "") => filteredRows.rows = rows

C12_Witness ==
    /\ filteredRows.done
    /\ search = ""
    /\ Len(filters) = 2
    /\ Len(rows) = 2
    /\ Len(filteredRows.rows) = 1
    /\ \E i \in 1..2 :
          /\ FilterMatches(rows[i], filters[1])
          /\ ~FilterMatches(rows[i], filters[2])
          /\ ~ArrayIncludes(filteredRows.rows, rows[i])

(***************************************************************************)
(* The sort stage: rows of a rehydrated store whose sort column holds       *)
(* strings, numbers, null, or nothing                                      *)
(***************************************************************************)
MaxSortRows == 3

SortValues == {JsStr(""), JsStr("a"), JsStr("b"), JsNum(1), JsNum(2), JsNull}

SortRowsAt(i) ==
    {[id |-> JsStr("r" \o NatToDigits(i))]}
        \cup {[id |-> JsStr("r" \o NatToDigits(i)), age |-> v] : v \in SortValues}

SortRowSeqs ==
    UNION {{rs \in [1..n -> UNION {SortRowsAt(i) : i \in 1..n}] :
                \A i \in 1..n : rs[i] \in SortRowsAt(i)} : n \in 0..MaxSortRows}

SortSpecs ==
    {NoSort, [column |-> "age", direction |-> "asc"], [column |-> "age", direction |-> "desc"]}

InitSort ==
    /\ columns = InitialColumns
    /\ rows \in SortRowSeqs
    /\ search = ""
    /\ filters = <<>>
    /\ sort \in SortSpecs
    /\ page = 0
    /\ pageSize = 10
    /\ editingRows = <<>>
    /\ selectedRows = <<>>
    /\ activityLog = <<>>
    /\ savedViews = <<>>
    /\ InitialLocals

NextSort == Render

SpecSort == InitSort /\ [][NextSort]_vars

\* the place of a row in a sequence of rows with distinct identities
PlaceOf(rs, row) == CHOOSE i \in 1..Len(rs) : rs[i] = row

\* C13: the sorted rows are a permutation of the rows given to the sort, two
\* rows whose sort values compare equal keep the order they had, in either
\* direction, and without a sort spec the rows come back unchanged.
C13_SortStable ==
    filteredRows.done =>
        /\ Len(sortedRows) = Len(filteredRows.rows)
        /\ SeqToSet(sortedRows) = SeqToSet(filteredRows.rows)
        /\ \A i, j \in 1..Len(filteredRows.rows) :
              (/\ i < j
               /\ sort # NoSort
               /\ SortCompare(filteredRows.rows[i], filteredRows.rows[j], sort) = 0)
                  => PlaceOf(sortedRows, filteredRows.rows[i])
                        < PlaceOf(sortedRows, filteredRows.rows[j])
        /\ sort = NoSort => sortedRows = filteredRows.rows

(***************************************************************************)
(* Paging: a table of imported rows is paged through                       *)
(***************************************************************************)
MaxPageRows == 11

PageRow(i) == [id |-> JsStr("r" \o NatToDigits(i))]

\* rowsPerPageOptions of the TablePagination
RowsPerPageOptions == {5, 10, 25}

\* number of pages the TablePagination offers for count rows
PageCount(count, size) == (count + size - 1) \div size

\* the back and next buttons of the TablePagination
handlePageChange(newPage) ==
    LET count == Len(FilteredRowsMemo(rows, columns, search, filters))
    IN  /\ newPage \in {page - 1, page + 1}
        /\ newPage >= 0
        /\ newPage <= PageCount(count, pageSize) - 1
        /\ page' = newPage
        /\ UNCHANGED <<columns, pageSize, activityLog, clock>>
        /\ UNCHANGED <<rowVars, viewVars, harnessVars>>

\* a plausible slip: dispatch(setPage(0)) is left out
handleRowsPerPageChangeKeepingPage(size) ==
    /\ pageSize' = size
    /\ UNCHANGED <<columns, activityLog, clock, page>>
    /\ UNCHANGED <<rowVars, viewVars, harnessVars>>

handleRowsPerPageChange(size) ==
    /\ pageSize' = size
    /\ page' = 0
    /\ UNCHANGED <<columns, activityLog, clock>>
    /\ UNCHANGED <<rowVars, viewVars, harnessVars>>

InitPages ==
    /\ columns = InitialColumns
    /\ rows \in {[i \in 1..n |-> PageRow(i)] : n \in 0..MaxPageRows}
    /\ search = ""
    /\ filters = <<>>
    /\ sort = NoSort
    /\ page = 0
    /\ pageSize = 10
    /\ editingRows = <<>>
    /\ selectedRows = <<>>
    /\ activityLog = <<>>
    /\ savedViews = <<>>
    /\ InitialLocals

NextPages ==
    \/ Render
    \/ \E newPage \in 0..MaxPageRows : handlePageChange(newPage)
    \/ \E size \in RowsPerPageOptions : handleRowsPerPageChange(size)

SpecPages == InitPages /\ [][NextPages]_vars

RECURSIVE ConcatWindows(_, _)
ConcatWindows(shown, n) ==
    IF n = 0 THEN <<>> ELSE ConcatWindows(shown, n - 1) \o shown[n - 1]

\* C14: every page window holds at most pageSize rows, and the windows of the
\* pages 0 .. ceil(len / pageSize) - 1, put one after the other, are the
\* sequence that was paged.
C14_PagesPartition ==
    filteredRows.done =>
        /\ \A p \in DOMAIN pageWindows.shown :
              Len(pageWindows.shown[p]) <= pageWindows.size
        /\ LET pages == PageCount(Len(sortedRows), pageWindows.size)
           IN  (DOMAIN pageWindows.shown = 0..(pages - 1))
                  => ConcatWindows(pageWindows.shown, pages) = sortedRows

C14_Witness ==
    /\ filteredRows.done
    /\ Len(sortedRows) = 11
    /\ pageWindows.size = 5
    /\ DOMAIN pageWindows.shown = {0, 1, 2}
    /\ Len(pageWindows.shown[2]) = 1

(***************************************************************************)
(* Loading a view into a table that has rows, a selection, a row being     *)
(* edited and a second page on display                                     *)
(***************************************************************************)
\* a plausible slip: the page is reset whether or not the view was found
PageAfterLoadAlways(at, p) == 0

\* state.page after the loadView reducer: reset only when the view was found
PageAfterLoad(at, p) == IF at = 0 THEN p ELSE 0

\* an identity no saved view has: Date.now() was never 0
StaleViewIds == {"0"}

\* dispatch(loadView(viewId)) on its own, for any identity
dispatchLoadView(viewId) ==
    LET at == FindView(savedViews, viewId)
        loaded == IF at = 0 THEN LiveQuery ELSE loadView(savedViews[at], LiveQuery)
    IN  /\ SetColumnsAndSync(loaded.columns, columnOrder)
        /\ filters' = loaded.filters
        /\ sort' = loaded.sort
        /\ search' = loaded.search
        /\ page' = PageAfterLoad(at, page)
        /\ UNCHANGED <<savedViews, snapshots, pageSize, filteredRows, exported,
                       addColumnError, memoVars, activityLog, clock>>
        /\ UNCHANGED rowVars

\* six rows were imported, five are shown per page, the second page is on
\* display, the first row is selected and the second one is being edited
InitLoad ==
    /\ columns = InitialColumns
    /\ rows = [i \in 1..6 |-> PageRow(i)]
    /\ search = ""
    /\ sort = NoSort
    /\ page = 1
    /\ pageSize = 5
    /\ editingRows = <<PageRow(2).id>>
    /\ selectedRows = <<PageRow(1).id>>
    /\ filters = <<>>
    /\ activityLog = <<>>
    /\ savedViews = <<>>
    /\ formValues = PageRow(2)
    /\ deleteDialog = NoId
    /\ pendingImport = NoFile
    /\ addColumnError = ""
    /\ columnOrder = ColumnIds(columns)
    /\ clock = 0
    /\ nextId = 0
    /\ snapshots = EmptyObject
    /\ filteredRows = NotRendered
    /\ exported = NotExported
    /\ sortedRows = <<>>
    /\ pageWindows = NoWindows
    /\ exportOutcome = NoOutcome
    /\ addFilterOutcome = NoOutcome

NextLoad ==
    \/ \E name \in ViewNames : handleSaveCurrentView(name)
    \/ \E id \in ViewIds : handleLoadView(id)
    \/ \E id \in ViewIds \cup StaleViewIds : dispatchLoadView(id)
    \/ \E text \in {"", "a"} : handleSearch(text)
    \/ handleSort("age")
    \/ handleToggleColumn("role")
    \/ \E newPage \in 0..1 : handlePageChange(newPage)

SpecLoad == InitLoad /\ [][NextLoad]_vars

\* C15: loading an identity no saved view has changes nothing; loading the
\* identity of a saved view sets the live columns, filters, sort and search to
\* the view's and the page to 0, and leaves the rows, the selection, the page
\* size, the saved views and the editing set as they were.
C15_LoadViewFrame ==
    [][\A id \in ViewIds \cup StaleViewIds :
          (dispatchLoadView(id) \/ handleLoadView(id)) =>
              LET at == FindView(savedViews, id)
              IN  IF at = 0
                  THEN UNCHANGED vars
                  ELSE /\ columns' = savedViews[at].columns
                       /\ filters' = savedViews[at].filters
                       /\ sort' = savedViews[at].sort
                       /\ search' = savedViews[at].search
                       /\ page' = 0
                       /\ UNCHANGED <<rows, selectedRows, pageSize, savedViews,
                                      editingRows>>]_vars

C15_Witness ==
    /\ LastLogged("Loaded view: v")
    /\ page = 0
    /\ Len(rows) = 6
    /\ selectedRows # <<>>
    /\ editingRows # <<>>
    /\ Len(savedViews) = 2
    /\ ViewQuery(savedViews[1]) # ViewQuery(savedViews[2])
    /\ LiveQuery = ViewQuery(savedViews[1])

(***************************************************************************)
(* AdvancedExport: the Export button and handleExport                      *)
(***************************************************************************)
MaxExportRows == 2

ExportScopes == {"all", "visible", "selected", "filtered"}

ExportFormats == {"csv", "pdf", "json"}

FileNames == {"table_export", "", " "}

\* what a run of handleExport does with the dialog's scope, file name and
\* format: alert('No data to export.') or a file handed to the encoder
ExportRun(scope, fileName, format) ==
    LET data == getExportData(scope, rows, columns, selectedRows, search, filters)
    IN  IF Len(data.rows) = 0
        THEN [kind |-> "declined", scope |-> scope, fileName |-> fileName,
              rows |-> data.rows, columns |-> data.columns, file |-> ""]
        ELSE [kind |-> "saved", scope |-> scope, fileName |-> fileName,
              rows |-> data.rows, columns |-> data.columns,
              file |-> fileName \o "." \o format]

\* handleExport, run with any scope, file name and format
handleExport(scope, fileName, format) ==
    /\ exportOutcome' = [via |-> "handleExport"] @@ ExportRun(scope, fileName, format)
    /\ UNCHANGED <<columns, rows, search, sort, page, pageSize, editingRows, selectedRows,
                   filters, activityLog, savedViews, formValues, deleteDialog,
                   pendingImport, addColumnError, columnOrder, clock, nextId, snapshots,
                   filteredRows, exported, sortedRows, pageWindows,
                       addFilterOutcome>>

\* a plausible slip: the button is disabled only when there is nothing to export
ExportDisabledIgnoringName(previewRows, fileName) == ~(Len(previewRows) > 0)

\* disabled={!canExport || !fileName.trim()}
ExportDisabled(previewRows, fileName) == ~(Len(previewRows) > 0) \/ Trim(fileName) = ""

\* a click on the Export button: nothing runs while the button is disabled
clickExport(scope, fileName, format) ==
    LET previewRows == getExportData(scope, rows, columns, selectedRows, search, filters).rows
    IN  /\ exportOutcome' =
              [via |-> "button"] @@
              (IF ExportDisabled(previewRows, fileName)
               THEN [kind |-> "declined", scope |-> scope, fileName |-> fileName,
                     rows |-> previewRows, columns |-> <<>>, file |-> ""]
               ELSE ExportRun(scope, fileName, format))
        /\ UNCHANGED <<columns, rows, search, sort, page, pageSize, editingRows,
                       selectedRows, filters, activityLog, savedViews, formValues,
                       deleteDialog, pendingImport, addColumnError, columnOrder, clock,
                       nextId, snapshots, filteredRows, exported, sortedRows, pageWindows,
                       addFilterOutcome>>

\* the selections a table of these rows can carry: ticked in any order, and
\* with the identity of a row that was deleted since
ExportSelections ==
    LET ids == {PageRow(i).id : i \in 1..(MaxExportRows + 1)}
    IN  {<<>>} \cup {<<a>> : a \in ids} \cup {p \in ids \X ids : p[1] # p[2]}

InitExport ==
    /\ columns \in QueryColumnSets
    /\ rows \in {[i \in 1..n |-> PageRow(i)] : n \in 0..MaxExportRows}
    /\ search = ""
    /\ filters = <<>>
    /\ sort = NoSort
    /\ page = 0
    /\ pageSize = 10
    /\ editingRows = <<>>
    /\ selectedRows \in ExportSelections
    /\ activityLog = <<>>
    /\ savedViews = <<>>
    /\ InitialLocals

NextExport ==
    \/ \E scope \in ExportScopes, fileName \in FileNames, format \in ExportFormats :
          clickExport(scope, fileName, format)
    \/ \E scope \in ExportScopes, fileName \in FileNames, format \in ExportFormats :
          handleExport(scope, fileName, format)

SpecExport == InitExport /\ [][NextExport]_vars

\* C16: an export of scope 'selected' projects exactly the rows whose identity
\* is selected, in the order of the row store; with nothing selected it
\* projects no row and is declined, it never falls back to every row.
C16_SelectedExport ==
    (exportOutcome.kind # "none" /\ exportOutcome.scope = "selected") =>
        /\ exportOutcome.rows =
              SelectSeq(rows, LAMBDA row : ArrayIncludes(selectedRows, Get(row, "id")))
        /\ selectedRows = <<>> =>
              (exportOutcome.rows = <<>> /\ exportOutcome.kind = "declined")
        /\ exportOutcome.kind = "saved" => exportOutcome.rows # <<>>

C16_Witness ==
    /\ exportOutcome.kind = "saved"
    /\ exportOutcome.scope = "selected"
    /\ exportOutcome.via = "button"
    /\ Len(rows) = 2
    /\ selectedRows = <<PageRow(2).id, PageRow(3).id>>
    /\ exportOutcome.rows = <<PageRow(2)>>

IsNumeric(x) == Number(x).t = "number"

\* the row test the numeric operators stand for
NumericFilterKeeps(row, filter) ==
    LET v == Number(Get(row, filter.column))
        lo == Number(filter.value)
        hi == Number(filter.value2)
    IN  CASE filter.operator = "greaterThan" ->
                IsNumeric(v) /\ IsNumeric(lo) /\ v.v > lo.v
          [] filter.operator = "lessThan" ->
                IsNumeric(v) /\ IsNumeric(lo) /\ v.v < lo.v
          [] filter.operator = "between" ->
                IsNumeric(v) /\ IsNumeric(lo) /\ IsNumeric(hi) /\ lo.v <= v.v /\ v.v <= hi.v

\* C18: under greaterThan, lessThan and between a row is kept iff the numeric
\* coercions of its value and of the filter value(s) satisfy the comparison
\* (strict, strict, inclusive at both ends); a value that coerces to no number
\* rejects the row, and a between filter with a non-numeric or missing end
\* keeps no row.
C18_NumericOperators ==
    (/\ filteredRows.done
     /\ search = ""
     /\ Len(filters) = 1
     /\ filters[1].operator \in {"greaterThan", "lessThan", "between"})
        => /\ filteredRows.rows =
                 SelectSeq(rows, LAMBDA row : NumericFilterKeeps(row, filters[1]))
           /\ (/\ filters[1].operator = "between"
               /\ ~(IsNumeric(filters[1].value) /\ IsNumeric(filters[1].value2)))
                  => filteredRows.rows = <<>>

C18_Witness ==
    /\ filteredRows.done
    /\ search = ""
    /\ Len(filters) = 1
    /\ filters[1].operator = "between"
    /\ filters[1].value = JsStr("0")
    /\ filters[1].value2 = JsStr("7")
    /\ Len(rows) = 2
    /\ Get(rows[1], "age") = JsNum(0)
    /\ Get(rows[2], "age") = JsStr("a")
    /\ filteredRows.rows = <<rows[1]>>

\* C19: with search text a row is kept iff a visible column holds a value
\* whose string form (empty for null and absent) contains the text, letter
\* case aside; hidden columns and fields without a column do not count; with
\* no search text every row is kept.
C19_SearchVisibleColumns ==
    (filteredRows.done /\ filters = <<>>) =>
        filteredRows.rows =
            SelectSeq(rows, LAMBDA row :
                search = ""
                \/ \E i \in 1..Len(columns) :
                      /\ columns[i].visible
                      /\ LET value == Get(row, columns[i].id)
                             text == IF IsNullish(value) THEN "" ELSE String(value)
                         IN  Includes(ToLowerCase(text), ToLowerCase(search)))

C19_Witness ==
    /\ filteredRows.done
    /\ filters = <<>>
    /\ search = "A"
    /\ \E i \in 1..Len(columns) : columns[i].id = "age" /\ ~columns[i].visible
    /\ Len(rows) = 2
    /\ Get(rows[1], "age") = JsStr("a")
    /\ filteredRows.rows = <<>>

(***************************************************************************)
(* Claims on the bulk update                                               *)
(***************************************************************************)
\* the bulk toolbar: rows are added or imported, selected, and the selection
\* is edited, duplicated or deleted
NextBulk ==
    \/ handleAddRow
    \/ \E id \in DisplayedIds : handleCancelEdit(id)
    \/ \E id \in DisplayedIds : handleSelectRow(id)
    \/ handleSelectAllRows
    \/ handleBulkDelete
    \/ \E editField \in BulkFields, editValue \in BulkValues :
            handleBulkEdit(editField, editValue)
    \/ handleBulkDuplicate
    \/ \E file \in ImportFiles : handleImportCSV(file)
    \/ importComplete

SpecBulk == Init /\ [][NextBulk]_vars

\* C20: a bulk update sets the edited field to the shared value on every row
\* whose identity is selected, leaves the other fields of those rows and all
\* other rows as they were, keeps the number and the order of the rows, and
\* empties the selection.
C20_BulkUpdateFrame ==
    [][\A editField \in BulkFields, editValue \in BulkValues :
          handleBulkEdit(editField, editValue) =>
              /\ Len(rows') = Len(rows)
              /\ \A i \in 1..Len(rows) :
                    IF ArrayIncludes(selectedRows, Get(rows[i], "id"))
                    THEN /\ DOMAIN rows'[i] = (DOMAIN rows[i]) \cup {editField}
                         /\ rows'[i][editField] = JsStr(editValue)
                         /\ \A k \in (DOMAIN rows[i]) \ {editField} :
                               rows'[i][k] = rows[i][k]
                    ELSE rows'[i] = rows[i]
              /\ selectedRows' = <<>>]_vars

C20_Witness ==
    /\ LastLogged("Bulk updated 1 rows: name = x")
    /\ Len(rows) = 2
    /\ Get(rows[1], "name") = JsStr("x")
    /\ Get(rows[2], "name") = JsStr("b")
    /\ selectedRows = <<>>

(***************************************************************************)
(* The row handlers over a rehydrated store                                *)
(***************************************************************************)
MaxStoredRows == 2

\* the i-th row redux-persist brings back
StoredRow(i) ==
    [id |-> JsStr("r" \o NatToDigits(i)), name |-> JsStr("n" \o NatToDigits(i)), age |-> JsNum(i)]

\* the identities and the partial field sets updateRow is dispatched with;
\* r0 is the identity of no row
UpdateIds == {JsStr("r0"), JsStr("r1"), JsStr("r2")}

UpdateChanges ==
    {[name |-> JsStr("x")], [age |-> JsNum(7), role |-> JsStr("x")], [id |-> JsStr("r2")]}

\* the reducer alone, whatever identity it is handed: handleSubmit runs its
\* callback asynchronously, the row may be gone by then
dispatchUpdateRow(id, changes) ==
    /\ rows' = updateRow(rows, id, changes)
    /\ UNCHANGED <<columns, editingRows, selectedRows, activityLog, formValues, deleteDialog,
                   pendingImport, clock, nextId>>
    /\ UNCHANGED <<viewVars, pageVars, harnessVars>>

InitRows ==
    /\ columns = InitialColumns
    /\ rows \in {[i \in 1..n |-> StoredRow(i)] : n \in 0..MaxStoredRows}
    /\ search = ""
    /\ sort = NoSort
    /\ page = 0
    /\ pageSize = 10
    /\ editingRows = <<>>
    /\ selectedRows = <<>>
    /\ filters = <<>>
    /\ activityLog = <<>>
    /\ savedViews = <<>>
    /\ InitialLocals

NextUpdate ==
    \/ \E id \in UpdateIds, changes \in UpdateChanges : dispatchUpdateRow(id, changes)
    \/ \E id \in DisplayedIds : handleSelectRow(id)

SpecUpdate == InitRows /\ [][NextUpdate]_vars

\* rows are ticked, edited, saved, deleted and duplicated
NextDuplicate ==
    \/ \E id \in DisplayedIds : handleSelectRow(id)
    \/ \E id \in DisplayedIds : handleEditRow(id)
    \/ \E i \in 1..Len(Displayed) : handleSaveRow(i)
    \/ \E id \in DisplayedIds : handleDeleteRow(id)
    \/ confirmDelete
    \/ handleBulkDuplicate

SpecDuplicate == InitRows /\ [][NextDuplicate]_vars

\* rows are added, opened for editing, typed into, saved and cancelled
NextEdit ==
    \/ handleAddRow
    \/ \E id \in DisplayedIds : handleEditRow(id)
    \/ \E column \in FormColumns, text \in FormTexts : handleFieldChange(column, text)
    \/ \E i \in 1..Len(Displayed) : handleSaveRow(i)
    \/ \E id \in DisplayedIds : handleCancelEdit(id)

SpecEdit == InitRows /\ [][NextEdit]_vars


(***************************************************************************)
(* Claims on the row reducers and handlers                                 *)
(***************************************************************************)
\* C21: updateRow with an identity no row has leaves the rows as they are;
\* with an identity a row has it merges the changes into the first row of that
\* identity and leaves the other rows, their order and their number alone.
C21_UpdateRow ==
    [][\A id \in UpdateIds, changes \in UpdateChanges :
          dispatchUpdateRow(id, changes) =>
              IF \A i \in 1..Len(rows) : Get(rows[i], "id") # id
              THEN rows' = rows
              ELSE /\ Len(rows') = Len(rows)
                   /\ \A i \in 1..Len(rows) :
                         IF i = FindIndex(rows, id)
                         THEN /\ DOMAIN rows'[i] = (DOMAIN rows[i]) \cup (DOMAIN changes)
                              /\ \A k \in DOMAIN changes : rows'[i][k] = changes[k]
                              /\ \A k \in (DOMAIN rows[i]) \ (DOMAIN changes) :
                                    rows'[i][k] = rows[i][k]
                         ELSE rows'[i] = rows[i]]_vars

C21_Witness ==
    /\ Len(rows) = 2
    /\ rows[1] = StoredRow(1)
    /\ rows[2] = [id |-> JsStr("r2"), name |-> JsStr("n2"), age |-> JsNum(7), role |-> JsStr("x")]
    /\ selectedRows = <<JsStr("r1")>>

(***************************************************************************)
(* The handlers that write the activity log                                *)
(***************************************************************************)
\* handleBulkEdit when the field or the value is empty: its if is not entered
handleBulkEditEmpty(editField, editValue) ==
    /\ Len(selectedRows) > 0
    /\ editField = "" \/ editValue = ""
    /\ UNCHANGED vars

\* confirmDelete when deleteDialog.id is null: its if is not entered
confirmDeleteClosed ==
    /\ ~Truthy(deleteDialog)
    /\ UNCHANGED vars

NextLogged ==
    \/ handleAddRow
    \/ \E column \in FormColumns, text \in FormTexts : handleFieldChange(column, text)
    \/ \E id \in DisplayedIds : handleSelectRow(id)
    \/ \E i \in 1..Len(Displayed) : handleSaveRow(i)
    \/ \E id \in DisplayedIds : handleDeleteRow(id)
    \/ confirmDelete
    \/ confirmDeleteClosed
    \/ handleSelectAllRows
    \/ handleBulkDelete
    \/ \E editField \in BulkFields, editValue \in BulkValues :
            handleBulkEdit(editField, editValue)
    \/ \E editField \in BulkFields \cup {""}, editValue \in BulkValues \cup {""} :
            handleBulkEditEmpty(editField, editValue)
    \/ handleBulkDuplicate
    \/ \E file \in ImportFiles : handleImportCSV(file)
    \/ importComplete

SpecLogged == Init /\ [][NextLogged]_vars

\* one entry of this kind was put in front of the log
Logged(kind) ==
    /\ Len(activityLog') = Len(activityLog) + 1
    /\ activityLog'[1].action = kind
    /\ SubSeq(activityLog', 2, Len(activityLog')) = activityLog

\* C22: add row, save, single delete, bulk delete, bulk update, duplicate and
\* import each put exactly one entry of their kind in the log in the step that
\* changes the rows, no step changes the rows without one, and a bulk edit
\* with an empty field or value and a delete with no pending identity log
\* nothing.
C22_MutationsLogged ==
    [][/\ handleAddRow => Logged("create")
       /\ (\E i \in 1..Len(Displayed) : handleSaveRow(i)) => Logged("update")
       /\ confirmDelete => Logged("delete")
       /\ handleBulkDelete => Logged("delete")
       /\ (\E editField \in BulkFields, editValue \in BulkValues :
                handleBulkEdit(editField, editValue)) => Logged("update")
       /\ handleBulkDuplicate => Logged("create")
       /\ importComplete => Logged("import")
       /\ rows' # rows => Len(activityLog') = Len(activityLog) + 1
       /\ (\E editField \in BulkFields \cup {""}, editValue \in BulkValues \cup {""} :
                handleBulkEditEmpty(editField, editValue)) => activityLog' = activityLog
       /\ confirmDeleteClosed => activityLog' = activityLog]_vars

C22_Witness ==
    /\ Len(activityLog) = 2
    /\ activityLog[1].action = "delete"
    /\ activityLog[2].action = "import"
    /\ Len(rows) = 1

(***************************************************************************)
(* Import over a rehydrated store                                          *)
(***************************************************************************)
\* files whose records carry an id column; r1 is also the identity of a
\* stored row
FilesWithIds ==
    {[name |-> "one.csv", chosen |-> TRUE,
      data |-> <<[id |-> JsStr("r1"), name |-> JsStr("a")]>>],
     [name |-> "two.csv", chosen |-> TRUE,
      data |-> <<[id |-> JsStr("r1"), name |-> JsStr("a")], [name |-> JsStr("b")]>>]}

\* a file is chosen and parsed while the table stays in use
NextImport ==
    \/ \E file \in FilesWithIds : handleImportCSV(file)
    \/ importComplete
    \/ handleAddRow
    \/ \E id \in DisplayedIds : handleEditRow(id)
    \/ \E column \in FormColumns, text \in FormTexts : handleFieldChange(column, text)
    \/ \E i \in 1..Len(Displayed) : handleSaveRow(i)

\* one row is in the store when the file is chosen
InitImport == InitRows /\ Len(rows) = 1

SpecImport == InitImport /\ [][NextImport]_vars

\* C23: when an import completes the rows are the parsed records in file
\* order, each with the record's fields and a generated identity that no row
\* and no record had, one import entry is logged, and no row that was in the
\* store before is left.
C23_ImportReplaces ==
    [][importComplete =>
          LET data == pendingImport.data
              before == {Get(rows[i], "id") : i \in 1..Len(rows)}
                            \cup {Get(data[i], "id") : i \in 1..Len(data)}
          IN  /\ Len(rows') = Len(data)
              /\ \A i \in 1..Len(data) :
                    /\ DOMAIN rows'[i] = (DOMAIN data[i]) \cup {"id"}
                    /\ \A k \in (DOMAIN data[i]) \ {"id"} : rows'[i][k] = data[i][k]
                    /\ rows'[i].id \notin before
                    /\ \A j \in 1..Len(data) : j # i => rows'[j].id # rows'[i].id
              /\ \A i \in 1..Len(rows) : \A j \in 1..Len(rows') : rows'[j] # rows[i]
              /\ Logged("import")]_vars

\* a row was added and typed into before the parse completed
C23_Witness ==
    /\ Len(activityLog) = 2
    /\ activityLog[1].details = "Imported 1 rows from one.csv"
    /\ activityLog[2].action = "create"
    /\ rows = <<[id |-> JsStr("u2"), name |-> JsStr("a")]>>
    /\ editingRows = <<JsStr("u1")>>
    /\ Get(formValues, "name") = JsStr("x")

(***************************************************************************)
(* The Manage Columns dialog                                               *)
(***************************************************************************)
\* what is typed in the Add Column field
AddColumnNames == {"", " ", "a b", " a_b ", "AGE", "Zip"}

NextAddColumn ==
    \/ \E name \in AddColumnNames : handleAddColumn(name)
    \/ \E columnId \in {"role", "a_b"} : handleToggleColumn(columnId)
    \/ \E pair \in {<<"name", "email">>, <<"email", "name">>} : handleDrop(pair[1], pair[2])

SpecAddColumn == Init /\ [][NextAddColumn]_vars

\* C24: a name that is empty once trimmed, or whose trimmed form equals the
\* label of a column ignoring case, is rejected with an error and the columns
\* stay as they are; any other name appends one visible, editable column
\* labelled with the trimmed name behind the unchanged existing columns.
C24_AddColumn ==
    [][\A name \in AddColumnNames :
          handleAddColumn(name) =>
              IF \/ Trim(name) = ""
                 \/ \E i \in 1..Len(columns) :
                        ToLowerCase(columns[i].label) = ToLowerCase(Trim(name))
              THEN /\ columns' = columns
                   /\ addColumnError' # ""
              ELSE /\ Len(columns') = Len(columns) + 1
                   /\ SubSeq(columns', 1, Len(columns)) = columns
                   /\ columns'[Len(columns')].label = Trim(name)
                   /\ columns'[Len(columns')].visible
                   /\ columns'[Len(columns')].editable
                   /\ addColumnError' = ""]_vars

\* a_b was added, hidden, and AGE was then turned down
C24_Witness ==
    /\ Len(columns) = 5
    /\ columns[5].label = "a_b"
    /\ ~columns[5].visible
    /\ addColumnError = "Column name must be unique."

(***************************************************************************)
(* Claims on the page size                                                 *)
(***************************************************************************)
\* C25: when the rows-per-page handler has run, the page index is 0 and the
\* page size is the chosen one, whatever the page index and size were.
C25_PageSizeResetsPage ==
    [][\A size \in RowsPerPageOptions :
          handleRowsPerPageChange(size) => page' = 0 /\ pageSize' = size]_vars

\* the third page of five rows was on display when 25 rows per page were chosen
C25_Witness ==
    /\ page = 0
    /\ pageSize = 25
    /\ pageWindows.size = 5
    /\ DOMAIN pageWindows.shown = {2}

(***************************************************************************)
(* The export projection of a table with a live query and a selection      *)
(***************************************************************************)
InitProjection ==
    /\ columns \in QueryColumnSets
    /\ rows \in QueryRowSeqs
    /\ search \in {"", "A"}
    /\ filters \in {fs \in QueryFilterSeqs : \A i \in 1..Len(fs) : fs[i].operator = "isNotEmpty"}
    /\ sort \in {NoSort, [column |-> "age", direction |-> "desc"]}
    /\ page = 0
    /\ pageSize = 10
    /\ editingRows = <<>>
    /\ selectedRows \in {<<>>, <<JsStr("r1")>>}
    /\ activityLog = <<>>
    /\ savedViews = <<>>
    /\ InitialLocals

NextProjection == \E scope \in {"all", "visible"} : ExportPreview(scope)

SpecProjection == InitProjection /\ [][NextProjection]_vars

\* C26: under scope 'all' and under scope 'visible' the export holds every
\* row of the store in store order, whatever the search, filters, sort and
\* selection are, and the columns whose visible flag is set, in registry order.
C26_AllAndVisible ==
    exported.scope \in {"all", "visible"} =>
        /\ exported.rows = rows
        /\ exported.columns = SelectSeq(columns, LAMBDA col : col.visible)

\* the search and the filter keep one of the two rows, the export has both
C26_Witness ==
    /\ exported.scope = "visible"
    /\ Len(exported.rows) = 2
    /\ Len(exported.columns) = 4
    /\ Len(filterRows(rows, columns, search, filters)) = 1
    /\ search = "A"
    /\ Len(filters) = 1
    /\ sort # NoSort
    /\ selectedRows # <<>>

(***************************************************************************)
(* Claims on duplicating and on editing several rows                       *)
(***************************************************************************)
\* copy is row with another identity and ' (Copy)' behind its name
IsCopyOf(copy, row) ==
    /\ DOMAIN copy = (DOMAIN row) \cup {"id", "name"}
    /\ \A k \in (DOMAIN row) \ {"id", "name"} : copy[k] = row[k]
    /\ copy.name = JsStr(String(Get(row, "name")) \o " (Copy)")

\* C27: duplicating appends one copy, under a new identity and with ' (Copy)'
\* behind the name, for each row whose identity is selected, leaves the rows
\* that were there in place, and makes the store grow by the number of
\* selected identities that some row has.
C27_Duplicate ==
    [][handleBulkDuplicate =>
          LET picked == SelectSeq(rows, LAMBDA row : ArrayIncludes(selectedRows, Get(row, "id")))
              present == {id \in SeqToSet(selectedRows) :
                            \E i \in 1..Len(rows) : Get(rows[i], "id") = id}
          IN  /\ Len(rows') = Len(rows) + Cardinality(present)
              /\ SubSeq(rows', 1, Len(rows)) = rows
              /\ Len(rows') = Len(rows) + Len(picked)
              /\ \A i \in 1..Len(picked) :
                    /\ IsCopyOf(rows'[Len(rows) + i], picked[i])
                    /\ \A j \in 1..Len(rows) : Get(rows[j], "id") # rows'[Len(rows) + i].id]_vars

\* C28: with rows in edit mode, opening another row or adding one leaves the
\* pending values of the rows being edited as they are, and saving a row
\* writes the values of that row's own edit, identity included, into that row
\* and changes no other row.
C28_OwnEdit ==
    [][/\ (editingRows # <<>> /\ (handleAddRow \/ \E id \in DisplayedIds : handleEditRow(id)))
              => formValues' = formValues
       /\ \A i \in 1..Len(Displayed) :
              handleSaveRow(i) =>
                  LET id == Get(Displayed[i], "id")
                      at == FindIndex(rows, id)
                  IN  /\ Get(formValues, "id") = id
                      /\ Get(rows'[at], "id") = id
                      /\ \A k \in 1..Len(rows) : k # at => rows'[k] = rows[k]]_vars

(***************************************************************************)
(* The Add Filter button of AdvancedFilters                                *)
(***************************************************************************)
\* the filter being composed: a column of the menu or none yet, an operator
\* of the menu, and what the value field holds
DraftFilters ==
    {[column |-> c, operator |-> op, value |-> JsStr(v), value2 |-> JsUndef] :
        c \in {"", "name", "age"},
        op \in {"equals", "contains", "isEmpty", "isNotEmpty"},
        v \in {"", "a", "1"}}

\* disabled={!currentFilter.column || (!['isEmpty', 'isNotEmpty'].includes(
\* currentFilter.operator || '') && !currentFilter.value)}
AddFilterDisabled(currentFilter) ==
    \/ currentFilter.column = ""
    \/ /\ currentFilter.operator \notin {"isEmpty", "isNotEmpty"}
       /\ ~Truthy(currentFilter.value)

\* a click on the Add Filter button while it is enabled: handleAddFilter runs
clickAddFilter(currentFilter) ==
    /\ ~AddFilterDisabled(currentFilter)
    /\ Len(filters) < MaxFilters
    /\ IF /\ currentFilter.column # ""
          /\ currentFilter.operator # ""
          /\ currentFilter.value # JsStr("")
       THEN /\ filters' = Append(filters, currentFilter)
            /\ addFilterOutcome' = [kind |-> "added", filter |-> currentFilter]
       ELSE /\ filters' = filters
            /\ addFilterOutcome' = [kind |-> "ignored", filter |-> currentFilter]
    /\ UNCHANGED <<columns, search, sort, savedViews, snapshots, activityLog, clock>>
    /\ UNCHANGED <<rowVars, pageVars, filteredRows, exported, addColumnError, columnOrder,
                   sortedRows, pageWindows, exportOutcome>>

NextAddFilter ==
    \/ \E currentFilter \in DraftFilters : clickAddFilter(currentFilter)
    \/ \E index \in 0..MaxFilters : handleRemoveFilter(index)
    \/ handleClearAllFilters
    \/ \E text \in {"", "a"} : handleSearch(text)
    \/ handleSort("age")

SpecAddFilter == Init /\ [][NextAddFilter]_vars

\* C29: a click on the enabled Add Filter button appends one filter, with the
\* chosen column and operator, to the live filters; so it does for isEmpty and
\* isNotEmpty with no value entered.
C29_AddFilterAppends ==
    [][\A currentFilter \in DraftFilters :
          clickAddFilter(currentFilter) =>
              /\ Len(filters') = Len(filters) + 1
              /\ SubSeq(filters', 1, Len(filters)) = filters
              /\ filters'[Len(filters')].column = currentFilter.column
              /\ filters'[Len(filters')].operator = currentFilter.operator]_vars

(***************************************************************************)
(* The page index while rows are deleted                                   *)
(***************************************************************************)
NextClamp ==
    \/ \E newPage \in 0..MaxPageRows : handlePageChange(newPage)
    \/ \E size \in RowsPerPageOptions : handleRowsPerPageChange(size)
    \/ \E id \in DisplayedIds : handleDeleteRow(id)
    \/ confirmDelete
    \/ handleSelectAllRows
    \/ handleBulkDelete

SpecClamp == InitPages /\ [][NextClamp]_vars

\* C30: whenever some row passes the search and the filters, the page on
\* display holds a row: page * pageSize is less than the number of filtered
\* rows.
C30_PageInRange ==
    LET count == Len(FilteredRowsMemo(rows, columns, search, filters))
    IN  count > 0 => page * pageSize < count

====
